---- MODULE Spec2Model ----
(***************************************************************************)
(* Storage drivers of media-sync (drivers.py): LocalDriver, MinioDriver,   *)
(* GoogleDriveDriver, AzureDriver and the create_driver factory.           *)
(*                                                                         *)
(* Strings are sequences of one-character strings, so that prefixing,      *)
(* stripping and startswith are computed as the code computes them.        *)
(* One behaviour follows one process: a configuration, one create_driver   *)
(* call, then any sequence of calls on the driver it returned.             *)
(* SpecCreate follows create_driver alone, over every share_with value and  *)
(* Drive folder state; SpecThreads follows two threads that each consume a  *)
(* list_files call on one Google Drive driver.                              *)
(***************************************************************************)
EXTENDS Naturals, Sequences, FiniteSets, TLC

\* ------------------------------------------------------------------ bounds
\* Longest Object Path a caller passes.
MaxPathLen == 3
\* Most objects the destination holds.
MaxFiles == 2
\* Longest prefix passed to list_files.
MaxPrefixLen == 2
\* Largest page the Drive backend returns for one files().list request.
MaxPage == 2
\* Most addresses in config.google_drive.share_with.
MaxShare == 2
\* Most Drive folders that have the configured name.
MaxFolders == 2

\* ----------------------------------------------------------------- strings
Chars == {"a", "/"}

RECURSIVE StringsOfLen(_)
StringsOfLen(n) ==
    IF n = 0 THEN {<<>>}
    ELSE {Append(s, c) : s \in StringsOfLen(n - 1), c \in Chars}

Strings(n) == UNION {StringsOfLen(k) : k \in 0..n}

\* Python None where a string is expected (a prefix, a missing attribute).
None == <<"None">>

\* str.startswith
startswith(s, p) == Len(p) <= Len(s) /\ SubSeq(s, 1, Len(p)) = p

\* str.endswith
endswith(s, p) ==
    Len(p) <= Len(s) /\ SubSeq(s, Len(s) - Len(p) + 1, Len(s)) = p

\* s[n:]
DropFirst(s, n) == SubSeq(s, n + 1, Len(s))

\* str.strip("/")
RECURSIVE strip(_)
strip(s) ==
    IF s = <<>> THEN s
    ELSE IF Head(s) = "/" THEN strip(Tail(s))
    ELSE IF s[Len(s)] = "/" THEN strip(SubSeq(s, 1, Len(s) - 1))
    ELSE s

\* Python truthiness of a string-or-None value.
Truthy(s) == s # None /\ s # <<>>

\* A name that needs escaping in a Drive query: a backslash and a quote.
SpecialPaths == {<<"\\", "'">>}

\* Object Path: slash-delimited non-empty segments, so never empty, no leading
\* or trailing slash and no empty segment.
ObjectPaths ==
    {s \in Strings(MaxPathLen) :
        /\ s # <<>>
        /\ Head(s) # "/"
        /\ s[Len(s)] # "/"
        /\ \A i \in 1..(Len(s) - 1) : ~(s[i] = "/" /\ s[i + 1] = "/")}

\* The elements of a sequence.
Range(s) == {s[i] : i \in 1..Len(s)}

\* ------------------------------------------------------------- DriverType
DriverValues == {"local", "minio", "google_drive", "azure"}

\* A configuration value for config.driver: a plain string or an enum member.
Str(v) == [t |-> "str", v |-> v]
Member(v) == [t |-> "DriverType", v |-> v]

\* DriverType.__eq__(self, value): compares with strings only; for any other
\* value the method falls off its end and returns None.
DriverType__eq__(self, value) ==
    IF value.t = "str" THEN (IF self.v = value.v THEN "True" ELSE "False")
    ELSE "None"

\* Python's `left == member`: a str on the left answers NotImplemented for a
\* non-str operand, so the reflected DriverType.__eq__ decides; a DriverType
\* on the left decides by its own __eq__.
PyEq(left, member) ==
    IF left.t = "str" THEN DriverType__eq__(member, left)
    ELSE DriverType__eq__(left, member)

\* The truth value an `if` gives the result of __eq__.
IsTrue(r) == r = "True"


\* ------------------------------------------------------------------ errors
\* What a backend client call can raise: the class, and for S3Error its code.
NoExc == [cls |-> "none", code |-> ""]
OSError == [cls |-> "OSError", code |-> ""]
S3NoSuchKey == [cls |-> "S3Error", code |-> "NoSuchKey"]
S3AccessDenied == [cls |-> "S3Error", code |-> "AccessDenied"]
\* A transport failure of the MinIO client's HTTP layer: not an S3Error.
HTTPError == [cls |-> "HTTPError", code |-> ""]
HttpError == [cls |-> "HttpError", code |-> ""]
AzureError == [cls |-> "AzureError", code |-> ""]

\* The failures a backend client call can end with, whatever the object asked
\* for (NoSuchKey is the backend's answer for an absent key, see stat_object).
BackendExceptions(kind) ==
    CASE kind = "local" -> {OSError}
      [] kind = "minio" -> {S3AccessDenied, HTTPError}
      [] kind = "google_drive" -> {HttpError}
      [] kind = "azure" -> {AzureError}

\* The classes each driver's except clauses name.
Caught(kind) ==
    CASE kind = "local" -> {"OSError"}
      [] kind = "minio" -> {"S3Error"}
      [] kind = "google_drive" -> {"HttpError", "DriverError"}
      [] kind = "azure" -> {"AzureError"}

\* How an operation ended: normally, with a DriverError carrying the chain of
\* message prefixes and the underlying cause, or with the backend's exception.
NoErr == [raised |-> "none", msg |-> <<>>, cause |-> NoExc]
DriverError(msg, e) == [raised |-> "DriverError", msg |-> msg, cause |-> e]
Escapes(e) == [raised |-> e.cls, msg |-> <<>>, cause |-> e]

\* A generator that is exhausted raises StopIteration into next().
StopIteration == [raised |-> "StopIteration", msg |-> <<>>, cause |-> NoExc]

\* try: ... except <Caught(kind)> as e: raise DriverError(msg + str(e))
Wrap(kind, msg, e) ==
    IF e = NoExc THEN NoErr
    ELSE IF e.cls \in Caught(kind) THEN DriverError(msg, e)
    ELSE Escapes(e)

\* What one call reports to its caller.
Outcome(op, arg, ret, found, err, calls) ==
    [op |-> op, arg |-> arg, ret |-> ret, found |-> found, err |-> err,
     calls |-> calls]

\* ---------------------------------------------------------- backend state
\* Insert a key: object stores and the filesystem overwrite an existing key.
Put(st, key) == IF key \in Range(st) THEN st ELSE Append(st, key)

\* Directories a path lies in: the part before each slash.
Parents(p) == {SubSeq(p, 1, i - 1) : i \in {j \in 2..Len(p) : p[j] = "/"}}

\* ------------------------------------------------------------ LocalDriver
\* config.local.dest
dest == <<"D">>

\* os.path.join(a, b) for a relative b.
os_path_join(a, b) == IF startswith(b, <<"/">>) THEN b ELSE a \o <<"/">> \o b

\* os.path.exists(os.path.join(self.dest, rel)): a file or a directory.
os_path_exists(st, ds, rel) == rel \in Range(st) \/ rel \in ds

LocalDriver_file_exists(st, ds, obj_path) ==
    Outcome("file_exists", obj_path, <<>>, os_path_exists(st, ds, obj_path),
            NoErr, 1)

LocalDriver_get_file_url(obj_path) ==
    Outcome("get_file_url", obj_path, os_path_join(dest, obj_path), FALSE,
            NoErr, 0)

\* makedirs of the parent directory, then copyfile. A parent that is a file,
\* or a directory in the file's place, makes the OS raise.
LocalDriver_upload_file(st, ds, obj_path, exc) ==
    LET blocked == obj_path \in ds \/ Parents(obj_path) \cap Range(st) # {}
        e == IF blocked THEN OSError ELSE exc
        made == IF blocked THEN ds ELSE ds \cup Parents(obj_path)
    IN  IF e = NoExc
        THEN [store |-> Put(st, obj_path), dirs |-> made,
              out |-> Outcome("upload_file", obj_path,
                              os_path_join(dest, obj_path), FALSE, NoErr, 1)]
        ELSE [store |-> st, dirs |-> made,
              out |-> Outcome("upload_file", obj_path, <<>>, FALSE,
                              Wrap("local", <<"Local driver error: ">>, e), 1)]

\* ------------------------------------------------------------ MinioDriver
\* self.base_url
base_url == <<"M">>

\* self.bucket_subpath as __init__ leaves it: None, or the configured value
\* with leading and trailing slashes stripped.
normalize_subpath(raw) == IF Truthy(raw) THEN strip(raw) ELSE None

\* The object key of an Object Path: the subpath is prefixed when set.
scoped_key(bucket_subpath, obj_path) ==
    IF Truthy(bucket_subpath) THEN bucket_subpath \o <<"/">> \o obj_path
    ELSE obj_path

MinioDriver_upload_file(bucket_subpath, st, obj_path, exc) ==
    LET key == scoped_key(bucket_subpath, obj_path)
    IN  IF exc = NoExc
        THEN [store |-> Put(st, key),
              out |-> Outcome("upload_file", obj_path,
                              base_url \o <<"/">> \o key, FALSE, NoErr, 1)]
        ELSE [store |-> st,
              out |-> Outcome("upload_file", obj_path, <<>>, FALSE,
                              Wrap("minio", <<"MinIO driver error: ">>, exc), 1)]

\* Variant: the locator is built from the Object Path alone.
MinioDriver_get_file_url_unscoped(bucket_subpath, obj_path) ==
    Outcome("get_file_url", obj_path, base_url \o <<"/">> \o obj_path,
            FALSE, NoErr, 0)

MinioDriver_get_file_url(bucket_subpath, obj_path) ==
    Outcome("get_file_url", obj_path,
            base_url \o <<"/">> \o scoped_key(bucket_subpath, obj_path),
            FALSE, NoErr, 0)

\* client.stat_object: answers NoSuchKey for an absent key, unless the call
\* fails for another reason first.
stat_object(st, key, exc) ==
    IF exc # NoExc THEN exc
    ELSE IF key \in Range(st) THEN NoExc
    ELSE S3NoSuchKey

\* Variant: the subpath is not prefixed to the key that is looked up.
MinioDriver_file_exists_unscoped(bucket_subpath, st, obj_path, exc) ==
    LET e == stat_object(st, obj_path, exc)
    IN  IF e = NoExc
        THEN Outcome("file_exists", obj_path, <<>>, TRUE, NoErr, 1)
        ELSE IF e.cls = "S3Error" /\ e.code = "NoSuchKey"
        THEN Outcome("file_exists", obj_path, <<>>, FALSE, NoErr, 1)
        ELSE Outcome("file_exists", obj_path, <<>>, FALSE,
                     Wrap("minio", <<"MinIO driver exists error: ">>, e), 1)

\* Variant: NoSuchKey is wrapped like any other S3Error.
MinioDriver_file_exists_no_not_found(bucket_subpath, st, obj_path, exc) ==
    LET e == stat_object(st, scoped_key(bucket_subpath, obj_path), exc)
    IN  IF e = NoExc
        THEN Outcome("file_exists", obj_path, <<>>, TRUE, NoErr, 1)
        ELSE Outcome("file_exists", obj_path, <<>>, FALSE,
                     Wrap("minio", <<"MinIO driver exists error: ">>, e), 1)

MinioDriver_file_exists(bucket_subpath, st, obj_path, exc) ==
    LET e == stat_object(st, scoped_key(bucket_subpath, obj_path), exc)
    IN  IF e = NoExc
        THEN Outcome("file_exists", obj_path, <<>>, TRUE, NoErr, 1)
        ELSE IF e.cls = "S3Error" /\ e.code = "NoSuchKey"
        THEN Outcome("file_exists", obj_path, <<>>, FALSE, NoErr, 1)
        ELSE Outcome("file_exists", obj_path, <<>>, FALSE,
                     Wrap("minio", <<"MinIO driver exists error: ">>, e), 1)

\* ------------------------------------------------------------ AzureDriver
\* The container's URL; a blob's URL is the container's plus the blob name.
container_url == <<"Z">>
blob_url(name) == container_url \o <<"/">> \o name

AzureDriver_upload_file(st, obj_path, exc) ==
    IF exc = NoExc
    THEN [store |-> Put(st, obj_path),
          out |-> Outcome("upload_file", obj_path, blob_url(obj_path), FALSE,
                          NoErr, 1)]
    ELSE [store |-> st,
          out |-> Outcome("upload_file", obj_path, <<>>, FALSE,
                          Wrap("azure", <<"Azure driver error: ">>, exc), 1)]

AzureDriver_get_file_url(obj_path) ==
    Outcome("get_file_url", obj_path, blob_url(obj_path), FALSE, NoErr, 0)

AzureDriver_file_exists(st, obj_path, exc) ==
    IF exc = NoExc
    THEN Outcome("file_exists", obj_path, <<>>, obj_path \in Range(st), NoErr, 1)
    ELSE Outcome("file_exists", obj_path, <<>>, FALSE,
                 Wrap("azure", <<"Azure driver exists error: ">>, exc), 1)


\* ------------------------------------------------------ GoogleDriveDriver
\* The webViewLink of the i-th file of the folder.
Digits == <<"1", "2", "3", "4", "5", "6", "7", "8", "9">>
webViewLink(i) == <<"w", Digits[i]>>

\* obj_path.replace("\\", "\\\\").replace("'", "\\'")
RECURSIVE replace_backslash(_)
replace_backslash(s) ==
    IF s = <<>> THEN <<>>
    ELSE IF Head(s) = "\\" THEN <<"\\", "\\">> \o replace_backslash(Tail(s))
    ELSE <<Head(s)>> \o replace_backslash(Tail(s))

RECURSIVE replace_quote(_)
replace_quote(s) ==
    IF s = <<>> THEN <<>>
    ELSE IF Head(s) = "'" THEN <<"\\", "'">> \o replace_quote(Tail(s))
    ELSE <<Head(s)>> \o replace_quote(Tail(s))

escaped_name(obj_path) == replace_quote(replace_backslash(obj_path))

\* The string a quoted literal of a Drive query denotes: a backslash quotes
\* the next character, a bare quote ends the literal.
RECURSIVE query_literal(_)
query_literal(s) ==
    IF s = <<>> THEN <<>>
    ELSE IF Head(s) = "\\" /\ Len(s) >= 2
    THEN <<s[2]>> \o query_literal(DropFirst(s, 2))
    ELSE IF Head(s) = "'" THEN <<>>
    ELSE <<Head(s)>> \o query_literal(Tail(s))

\* files().list(q="'<folder>' in parents and name = '<escaped>' ...", pageSize=1):
\* the indices of the folder's files with that exact name, first one only.
files_by_name(st, escaped) ==
    LET hits == {i \in 1..Len(st) : st[i] = query_literal(escaped)}
    IN  IF hits = {} THEN {} ELSE {CHOOSE i \in hits : \A j \in hits : i <= j}

\* self._url_cache: the attribute may be missing; a dict otherwise.
NoCache == [has |-> FALSE, entries |-> {}]
cache_has(cache, name) == cache.has /\ \E e \in cache.entries : e.name = name
cache_get(cache, name) == (CHOOSE e \in cache.entries : e.name = name).url
cache_set(cache, name, url) ==
    [has |-> TRUE,
     entries |-> {e \in cache.entries : e.name # name}
                 \cup {[name |-> name, url |-> url]}]

\* files().create, then _file_link's files().get; `at` is the request that
\* fails when exc is an exception.
GoogleDriveDriver_upload_file(st, obj_path, exc, at) ==
    IF exc = NoExc
    THEN [store |-> Append(st, obj_path),
          out |-> Outcome("upload_file", obj_path, webViewLink(Len(st) + 1),
                          FALSE, NoErr, 2)]
    ELSE IF at = 1
    THEN [store |-> st,
          out |-> Outcome("upload_file", obj_path, <<>>, FALSE,
                          Wrap("google_drive",
                               <<"GoogleDrive driver error: ">>, exc), 1)]
    ELSE [store |-> Append(st, obj_path),
          out |-> Outcome("upload_file", obj_path, <<>>, FALSE,
                          Wrap("google_drive",
                               <<"Google Drive file link error: ">>, exc), 2)]

\* Variant: the cache is not consulted, every call asks the backend.
GoogleDriveDriver_get_file_url_uncached(cache, st, obj_path, exc) ==
    IF exc # NoExc
    THEN Outcome("get_file_url", obj_path, <<>>, FALSE,
                 Wrap("google_drive",
                      <<"Google Drive get file URL error: ">>, exc), 1)
    ELSE LET files == files_by_name(st, escaped_name(obj_path))
         IN  Outcome("get_file_url", obj_path,
                     IF files # {} THEN webViewLink(CHOOSE i \in files : TRUE)
                     ELSE <<>>,
                     FALSE, NoErr, 1)

GoogleDriveDriver_get_file_url(cache, st, obj_path, exc) ==
    IF cache_has(cache, obj_path)
    THEN Outcome("get_file_url", obj_path, cache_get(cache, obj_path), FALSE,
                 NoErr, 0)
    ELSE IF exc # NoExc
    THEN Outcome("get_file_url", obj_path, <<>>, FALSE,
                 Wrap("google_drive",
                      <<"Google Drive get file URL error: ">>, exc), 1)
    ELSE LET files == files_by_name(st, escaped_name(obj_path))
         IN  Outcome("get_file_url", obj_path,
                     IF files # {} THEN webViewLink(CHOOSE i \in files : TRUE)
                     ELSE <<>>,
                     FALSE, NoErr, 1)

\* Variant: a name missing from the cache is reported absent without a query.
GoogleDriveDriver_file_exists_cache_only(cache, st, obj_path, exc) ==
    Outcome("file_exists", obj_path, <<>>, cache_has(cache, obj_path), NoErr, 0)

\* Variant: the folder is listed, one file a page, and searched for the name.
GoogleDriveDriver_file_exists_by_listing(cache, st, obj_path, exc) ==
    IF exc # NoExc
    THEN Outcome("file_exists", obj_path, <<>>, FALSE,
                 Wrap("google_drive",
                      <<"Google Drive file exists error: ">>, exc), 1)
    ELSE Outcome("file_exists", obj_path, <<>>, obj_path \in Range(st), NoErr,
                 IF st = <<>> THEN 1 ELSE Len(st))

GoogleDriveDriver_file_exists(cache, st, obj_path, exc) ==
    IF cache_has(cache, obj_path)
    THEN Outcome("file_exists", obj_path, <<>>, TRUE, NoErr, 0)
    ELSE IF exc # NoExc
    THEN Outcome("file_exists", obj_path, <<>>, FALSE,
                 Wrap("google_drive",
                      <<"Google Drive file exists error: ">>, exc), 1)
    ELSE Outcome("file_exists", obj_path, <<>>,
                 Cardinality(files_by_name(st, escaped_name(obj_path))) > 0,
                 NoErr, 1)


\* --------------------------------------------------------------- listing
\* One entry of a backend listing: a name and, from Drive, its link.
Item(name, url) == [name |-> name, url |-> url]

Min(S) == CHOOSE i \in S : \A j \in S : i <= j

\* What resuming a list_files generator gives its caller: the next name
\* ("yield"), the end of the sequence ("stop") or an exception ("raise");
\* with the entries left and the Drive continuation token.
Resumed(ev, name, url, buf, token, err, calls) ==
    [ev |-> ev, name |-> name, url |-> url, buf |-> buf, token |-> token,
     err |-> err, calls |-> calls]

\* `prefix is None or name.startswith(prefix)`
prefix_matches(name, prefix) == prefix = None \/ startswith(name, prefix)

\* LocalDriver.list_files: os.walk gives every file under dest; the relative
\* path is kept when it starts with the prefix.
LocalDriver_walk(st) == [i \in 1..Len(st) |-> Item(st[i], <<>>)]

LocalDriver_list_next(buf, prefix) ==
    LET hits == {i \in 1..Len(buf) : prefix_matches(buf[i].name, prefix)}
    IN  IF hits = {} THEN Resumed("stop", <<>>, <<>>, <<>>, 0, NoErr, 0)
        ELSE Resumed("yield", buf[Min(hits)].name, <<>>,
                     DropFirst(buf, Min(hits)), 0, NoErr, 0)

\* Variant: the subpath is used as a raw string prefix, without the slash.
effective_prefix_raw(bucket_subpath, prefix) ==
    IF Truthy(bucket_subpath)
    THEN IF Truthy(prefix) THEN bucket_subpath \o <<"/">> \o prefix
         ELSE bucket_subpath
    ELSE prefix

\* MinioDriver.list_files: the prefix handed to list_objects.
effective_prefix(bucket_subpath, prefix) ==
    IF Truthy(bucket_subpath)
    THEN LET subpath_dir == IF endswith(bucket_subpath, <<"/">>)
                            THEN bucket_subpath
                            ELSE bucket_subpath \o <<"/">>
         IN  IF Truthy(prefix) THEN subpath_dir \o prefix ELSE subpath_dir
    ELSE prefix

\* client.list_objects(bucket, prefix=..., recursive=True): every key that
\* starts with the prefix, all keys for None or "".
list_objects(st, pfx) ==
    LET keys == SelectSeq(st, LAMBDA k : pfx = None \/ startswith(k, pfx))
    IN  [i \in 1..Len(keys) |-> Item(keys[i], <<>>)]

\* obj.is_dir: a directory marker, a key that ends with a slash.
is_dir(key) == endswith(key, <<"/">>)

\* Variant: the key is yielded as the backend names it.
strip_subpath_kept(bucket_subpath, name) == name

\* The name yielded for a key: the "<subpath>/" prefix is cut off.
strip_subpath(bucket_subpath, name) ==
    LET prefix_to_strip == IF Truthy(bucket_subpath)
                           THEN bucket_subpath \o <<"/">>
                           ELSE <<>>
    IN  IF prefix_to_strip # <<>> /\ startswith(name, prefix_to_strip)
        THEN DropFirst(name, Len(prefix_to_strip))
        ELSE name

MinioDriver_list_next(bucket_subpath, buf, exc) ==
    LET hits == {i \in 1..Len(buf) : ~is_dir(buf[i].name)}
    IN  IF exc # NoExc
        THEN Resumed("raise", <<>>, <<>>, <<>>, 0,
                     Wrap("minio", <<"MinIO driver list error: ">>, exc), 1)
        ELSE IF hits = {} THEN Resumed("stop", <<>>, <<>>, <<>>, 0, NoErr, 0)
        ELSE Resumed("yield",
                     strip_subpath(bucket_subpath, buf[Min(hits)].name), <<>>,
                     DropFirst(buf, Min(hits)), 0, NoErr, 0)

\* container_client.list_blobs(name_starts_with=prefix)
list_blobs(st, prefix) ==
    LET names == SelectSeq(st, LAMBDA k : prefix = None \/ startswith(k, prefix))
    IN  [i \in 1..Len(names) |-> Item(names[i], <<>>)]

AzureDriver_list_next(buf, exc) ==
    IF exc # NoExc
    THEN Resumed("raise", <<>>, <<>>, <<>>, 0,
                 Wrap("azure", <<"Azure driver list error: ">>, exc), 1)
    ELSE IF buf = <<>> THEN Resumed("stop", <<>>, <<>>, <<>>, 0, NoErr, 0)
    ELSE Resumed("yield", Head(buf).name, <<>>, Tail(buf), 0, NoErr, 0)

\* files().list(q=<children of the folder>, pageToken=token, pageSize=1000):
\* the backend answers with the next `size` files after the token's position
\* and a nextPageToken when more remain (0 stands for no token).
files_list(st, token, size) ==
    LET last == IF token + size < Len(st) THEN token + size ELSE Len(st)
    IN  [files |-> [i \in 1..(last - token) |->
                        Item(st[token + i], webViewLink(token + i))],
         nextPageToken |-> IF last < Len(st) THEN last ELSE 0]

\* Variant: the continuation token of a response is dropped, so that only
\* the first page is read.
next_page_token_dropped(results) == 0

\* page_token = results.get("nextPageToken"); 0 stands for no token.
next_page_token(results) == results.nextPageToken

\* GoogleDriveDriver.list_files from one yield to the next: the rest of the
\* current page is filtered by prefix; a page used up, the next one is
\* requested while the last response carried a token. sizes[t] is the size of
\* the page the backend serves at position t; the request numbered `at` of
\* this resumption fails when exc is an exception.
RECURSIVE GoogleDriveDriver_list_next(_, _, _, _, _, _, _, _, _)
GoogleDriveDriver_list_next(buf, token, fetch, prefix, st, sizes, exc, at, calls) ==
    IF fetch
    THEN IF exc # NoExc /\ calls + 1 = at
         THEN Resumed("raise", <<>>, <<>>, <<>>, 0,
                      Wrap("google_drive", <<"Google Drive list error: ">>, exc),
                      calls + 1)
         ELSE LET results == files_list(st, token, sizes[token])
              IN  GoogleDriveDriver_list_next(
                      results.files, next_page_token(results), FALSE, prefix, st,
                      sizes, exc, at, calls + 1)
    ELSE LET hits == {i \in 1..Len(buf) : prefix_matches(buf[i].name, prefix)}
         IN  IF hits # {}
             THEN Resumed("yield", buf[Min(hits)].name, buf[Min(hits)].url,
                          DropFirst(buf, Min(hits)), token, NoErr, calls)
             ELSE IF token = 0
             THEN Resumed("stop", <<>>, <<>>, <<>>, 0, NoErr, calls)
             ELSE GoogleDriveDriver_list_next(
                      <<>>, token, TRUE, prefix, st, sizes, exc, at, calls)


\* ---------------------------------------------------------- construction
\* A driver instance: its class and, for MinioDriver, self.bucket_subpath.
Instance(kind, bucket_subpath) == [kind |-> kind, bucket_subpath |-> bucket_subpath]
NoDriver == Instance("None", None)

\* One request to the backend: the client method, the Drive file it names
\* (0 for none), the address it carries, and how the backend answered
\* ("found" / "absent" for a probe, "ok", or "raised").
Request(api, fileId, emailAddress, result) ==
    [api |-> api, fileId |-> fileId, emailAddress |-> emailAddress,
     result |-> result]

\* The existence probe of a constructor and the request that creates the
\* destination.
Probe(api, exists, failed) ==
    Request(api, 0, <<>>,
            IF failed THEN "raised" ELSE IF exists THEN "found" ELSE "absent")
Create(api, failed) == Request(api, 0, <<>>, IF failed THEN "raised" ELSE "ok")

\* What a constructor leaves: the instance (NoDriver when it raised), whether
\* the destination exists afterwards, how it ended, and the requests it sent.
Constructed(d, exists, err, reqs) ==
    [driver |-> d, dest_exists |-> exists,
     out |-> Outcome("create_driver", <<>>, <<>>, FALSE, err, Len(reqs))
                @@ [requests |-> reqs]]

\* Every constructor probes the destination and creates it when absent; `at`
\* is the backend request that fails when exc is an exception (1 the probe,
\* 2 the creation). os.path.exists does not raise.
LocalDriver__init__(exists, exc) ==
    IF exists
    THEN Constructed(Instance("local", None), TRUE, NoErr,
                     <<Probe("os.path.exists", TRUE, FALSE)>>)
    ELSE IF exc # NoExc
    THEN Constructed(NoDriver, FALSE,
                     Wrap("local", <<"Local driver init error: ">>, exc),
                     <<Probe("os.path.exists", FALSE, FALSE),
                       Create("os.makedirs", TRUE)>>)
    ELSE Constructed(Instance("local", None), TRUE, NoErr,
                     <<Probe("os.path.exists", FALSE, FALSE),
                       Create("os.makedirs", FALSE)>>)

MinioDriver__init__(raw_subpath, exists, exc, at) ==
    IF exc # NoExc /\ at = 1
    THEN Constructed(NoDriver, exists,
                     Wrap("minio", <<"MinIO driver init error: ">>, exc),
                     <<Probe("bucket_exists", exists, TRUE)>>)
    ELSE IF exists
    THEN Constructed(Instance("minio", normalize_subpath(raw_subpath)), TRUE,
                     NoErr, <<Probe("bucket_exists", TRUE, FALSE)>>)
    ELSE IF exc # NoExc /\ at = 2
    THEN Constructed(NoDriver, FALSE,
                     Wrap("minio", <<"MinIO driver init error: ">>, exc),
                     <<Probe("bucket_exists", FALSE, FALSE),
                       Create("make_bucket", TRUE)>>)
    ELSE Constructed(Instance("minio", normalize_subpath(raw_subpath)), TRUE,
                     NoErr,
                     <<Probe("bucket_exists", FALSE, FALSE),
                       Create("make_bucket", FALSE)>>)

\* Variant: the container is created whatever the probe answered.
AzureDriver__init__always_creates(exists, exc, at) ==
    IF exc # NoExc /\ at \in 1..2
    THEN Constructed(NoDriver, exists,
                     Wrap("azure", <<"Azure driver init error: ">>, exc),
                     <<Probe("exists", exists, at = 1)>>
                        \o (IF at = 2 THEN <<Create("create_container", TRUE)>>
                            ELSE <<>>))
    ELSE Constructed(Instance("azure", None), TRUE, NoErr,
                     <<Probe("exists", exists, FALSE),
                       Create("create_container", FALSE)>>)

AzureDriver__init__(exists, exc, at) ==
    IF exc # NoExc /\ at = 1
    THEN Constructed(NoDriver, exists,
                     Wrap("azure", <<"Azure driver init error: ">>, exc),
                     <<Probe("exists", exists, TRUE)>>)
    ELSE IF exists
    THEN Constructed(Instance("azure", None), TRUE, NoErr,
                     <<Probe("exists", TRUE, FALSE)>>)
    ELSE IF exc # NoExc /\ at = 2
    THEN Constructed(NoDriver, FALSE,
                     Wrap("azure", <<"Azure driver init error: ">>, exc),
                     <<Probe("exists", FALSE, FALSE),
                       Create("create_container", TRUE)>>)
    ELSE Constructed(Instance("azure", None), TRUE, NoErr,
                     <<Probe("exists", FALSE, FALSE),
                       Create("create_container", FALSE)>>)

\* ------------------------------------------- Google Drive construction
\* The character classes of email_regex, each by a few of its members.
Lower == {"a", "b"}
Upper == {"A", "B"}
\* [a-zA-Z0-9_.+-]
LocalChars == Lower \cup Upper \cup {"0", "_", ".", "+", "-"}
\* [a-zA-Z0-9-]
DomainChars == Lower \cup Upper \cup {"0", "-"}
\* [a-zA-Z0-9-.]
TailChars == DomainChars \cup {"."}

\* email_regex.match(s) for ^[a-zA-Z0-9_.+-]+@[a-zA-Z0-9-]+\.[a-zA-Z0-9-.]+$ :
\* s[i] is the "@", s[j] the "." that ends the first domain label, e the last
\* character matched ("$" also matches before a final newline).
email_regex_match(s) ==
    \E i \in 1..Len(s), j \in 1..Len(s) :
    \E e \in {Len(s)} \cup
             (IF s[Len(s)] = "\n" THEN {Len(s) - 1} ELSE {}) :
        /\ 1 < i /\ i + 1 < j /\ j < e
        /\ s[i] = "@" /\ s[j] = "."
        /\ \A k \in 1..(i - 1) : s[k] \in LocalChars
        /\ \A k \in (i + 1)..(j - 1) : s[k] \in DomainChars
        /\ \A k \in (j + 1)..e : s[k] \in TailChars

\* str.lower()
lower(s) ==
    [k \in 1..Len(s) |->
        CASE s[k] = "A" -> "a" [] s[k] = "B" -> "b" [] OTHER -> s[k]]

\* _folder_exists: the id of the first folder the name query returns, 0 for
\* None.
GoogleDriveDriver_folder_exists(flds) == IF flds # <<>> THEN Head(flds) ELSE 0

\* _create_folder: the id of the folder the backend creates.
GoogleDriveDriver_create_folder(flds) == Len(flds) + 1

\* Variant: the addresses are compared as they are written.
GoogleDriveDriver_has_already_permission_exact(perms, folder_id, email) ==
    \E p \in perms : p.fileId = folder_id /\ p.emailAddress = email

\* _has_already_permission, given the answer of permissions().list.
GoogleDriveDriver_has_already_permission(perms, folder_id, email) ==
    \E p \in perms :
        p.fileId = folder_id /\ lower(p.emailAddress) = lower(email)

\* What the sharing steps leave: the folder permissions, the requests sent so
\* far, and how they ended.
Shared(perms, reqs, err) == [permissions |-> perms, requests |-> reqs, err |-> err]

\* _share_with(email): one permissions().list and, when the address is not
\* among its answer, one permissions().create for the resolved folder.
GoogleDriveDriver_share_with(email, folder_id, perms, reqs, exc, at) ==
    LET fails(n) == exc # NoExc /\ Len(reqs) + n = at
        listed == Append(reqs, Request("permissions.list", folder_id, <<>>,
                                       IF fails(1) THEN "raised" ELSE "ok"))
        created == Append(listed, Request("permissions.create", folder_id, email,
                                          IF fails(2) THEN "raised" ELSE "ok"))
    IN  IF fails(1)
        THEN Shared(perms, listed,
                    DriverError(<<"Google Drive has permission error: ">>, exc))
        ELSE IF GoogleDriveDriver_has_already_permission(perms, folder_id, email)
        THEN Shared(perms, listed, NoErr)
        ELSE IF fails(2)
        THEN Shared(perms, created,
                    DriverError(<<"Google Drive sharing folder error: ">>, exc))
        ELSE Shared(perms \cup {[fileId |-> folder_id, emailAddress |-> email]},
                    created, NoErr)

\* _get_share_with: the configured value, a str or a list, reduced to the
\* addresses that match email_regex; any other type raises. sw.v holds the
\* addresses of the value: the one a str is, or the entries of a list.
GoogleDriveDriver_get_share_with(sw) ==
    CASE sw.t = "str" ->
            [emails |-> IF email_regex_match(sw.v[1]) THEN <<sw.v[1]>> ELSE <<>>,
             err |-> NoErr]
      [] sw.t = "list" ->
            [emails |-> SelectSeq(sw.v, email_regex_match), err |-> NoErr]
      [] OTHER ->
            [emails |-> <<>>,
             err |-> DriverError(
                 <<"Google Drive sharing: Incorrect GoogleDrive shared_with settings">>,
                 NoExc)]

\* for email in self._get_share_with(...): if email: self._share_with(email)
RECURSIVE GoogleDriveDriver_share_all(_, _, _, _, _, _)
GoogleDriveDriver_share_all(emails, folder_id, perms, reqs, exc, at) ==
    IF emails = <<>> THEN Shared(perms, reqs, NoErr)
    ELSE IF Head(emails) = <<>>
    THEN GoogleDriveDriver_share_all(Tail(emails), folder_id, perms, reqs, exc, at)
    ELSE LET r == GoogleDriveDriver_share_with(Head(emails), folder_id, perms,
                                               reqs, exc, at)
         IN  IF r.err # NoErr THEN r
             ELSE GoogleDriveDriver_share_all(Tail(emails), folder_id,
                                              r.permissions, r.requests, exc, at)

\* GoogleDriveDriver.__init__: the folder is looked up by name and created
\* when no folder has it, then shared. Each helper raises DriverError itself,
\* which the constructor's `except Exception` wraps once more. flds are the
\* folders of that name in the order the backend returns them, perms the
\* permissions on the Drive.
GoogleDriveDriver__init__(flds, sw, perms, exc, at) ==
    LET fails(n) == exc # NoExc /\ at = n
        init_error(err) ==
            DriverError(<<"GoogleDrive driver init error: ">> \o err.msg, err.cause)
        found == GoogleDriveDriver_folder_exists(flds)
        probe == Request("files.list", 0, <<>>,
                         IF fails(1) THEN "raised"
                         ELSE IF found # 0 THEN "found" ELSE "absent")
        create == Request("files.create", 0, <<>>,
                          IF fails(2) THEN "raised" ELSE "ok")
        folder_id == IF found # 0 THEN found
                     ELSE GoogleDriveDriver_create_folder(flds)
        resolved == IF found # 0 THEN <<probe>> ELSE <<probe, create>>
        folders_after == IF found # 0 THEN flds ELSE Append(flds, folder_id)
        share == GoogleDriveDriver_get_share_with(sw)
        shared == GoogleDriveDriver_share_all(share.emails, folder_id, perms,
                                              resolved, exc, at)
        failed(err, reqs, fs, ps) ==
            Constructed(NoDriver, fs # <<>>, init_error(err), reqs)
                @@ [folders |-> fs, permissions |-> ps]
    IN  IF fails(1)
        THEN failed(DriverError(<<"Google Drive folder exists error: ">>, exc),
                    <<probe>>, flds, perms)
        ELSE IF found = 0 /\ fails(2)
        THEN failed(DriverError(<<"Google Drive create folder error: ">>, exc),
                    <<probe, create>>, flds, perms)
        ELSE IF share.err # NoErr
        THEN failed(share.err, resolved, folders_after, perms)
        ELSE IF shared.err # NoErr
        THEN failed(shared.err, shared.requests, folders_after,
                    shared.permissions)
        ELSE Constructed(Instance("google_drive", None), TRUE, NoErr,
                         shared.requests)
                @@ [folders |-> folders_after,
                    permissions |-> shared.permissions]

\* create_driver(config): the first branch whose comparison is true builds
\* the driver; with none true, driver stays None.
create_driver(cfg, exists, flds, perms, exc, at) ==
    LET drive == [folders |-> flds, permissions |-> perms]
    IN  IF IsTrue(PyEq(cfg.driver, Member("local")))
        THEN LocalDriver__init__(exists, exc) @@ drive
        ELSE IF IsTrue(PyEq(cfg.driver, Member("minio")))
        THEN MinioDriver__init__(cfg.bucket_subpath, exists, exc, at) @@ drive
        ELSE IF IsTrue(PyEq(cfg.driver, Member("google_drive")))
        THEN GoogleDriveDriver__init__(flds, cfg.share_with, perms, exc, at)
        ELSE IF IsTrue(PyEq(cfg.driver, Member("azure")))
        THEN AzureDriver__init__(exists, exc, at) @@ drive
        ELSE Constructed(NoDriver, exists, NoErr, <<>>) @@ drive

\* ------------------------------------------------------------------ state
VARIABLES
    config,        \* the configuration: driver kind, minio.bucket_subpath
    pc,            \* "start", then "ready" | "no_driver" | "init_failed"
    driver,        \* the instance create_driver returned, NoDriver for None
    dest_exists,   \* whether the directory / bucket / folder / container exists
    store,         \* the destination's objects, in the backend's order
    dirs,          \* LocalDriver: the directories under dest
    url_cache,     \* GoogleDriveDriver._url_cache
    gens,          \* the list_files generators the caller holds
    lastOp,        \* what the latest call reported
    uploaded,      \* history: the Object Paths upload_file returned for
    yieldedNames,  \* history: the names list_files has yielded
    folders,       \* Drive: ids of the folders with the configured name
    permissions,   \* Drive: the (folder, address) permissions
    locators,      \* history: (path, locator) upload_file returned, for the
                   \* drivers that compute the locator from the path
    threads        \* threads that each consume one list_files call

vars == <<config, pc, driver, dest_exists, store, dirs, url_cache, gens,
          lastOp, uploaded, yieldedNames, folders, permissions, locators,
          threads>>

\* The generators a caller holds at once.
GenIds == {1}

\* config.driver: the four kinds as strings and as enum members, and a kind
\* no driver implements.
ConfigDrivers ==
    {Str(v) : v \in DriverValues \cup {"ftp"}} \cup {Member(v) : v \in DriverValues}

\* config.minio.bucket_subpath: missing, a name with slashes around it, a
\* lone slash.
SubpathConfigs == {None, <<"/", "a", "/">>, <<"/">>}

\* Collaborator addresses: two that differ in case only, another one, and one
\* email_regex rejects.
Addresses ==
    {<<"a", "@", "a", ".", "a">>, <<"A", "@", "a", ".", "a">>,
     <<"b", "@", "a", ".", "a">>, <<"a", "@", "a">>}

\* The addresses that hold a permission on a folder before the driver is
\* built, as the backend spells them.
Holders == {<<"A", "@", "a", ".", "a">>, <<"b", "@", "a", ".", "a">>}

RECURSIVE AddressLists(_)
AddressLists(n) ==
    IF n = 0 THEN {<<>>}
    ELSE AddressLists(n - 1) \cup
         {Append(l, e) : l \in {m \in AddressLists(n - 1) : Len(m) = n - 1},
                         e \in Addresses}

\* config.google_drive.share_with: one address, a list of addresses, or a
\* value of another type.
NoShare == [t |-> "list", v |-> <<>>]
ShareConfigs ==
    {[t |-> "str", v |-> <<e>>] : e \in Addresses}
        \cup {[t |-> "list", v |-> l] : l \in AddressLists(MaxShare)}
        \cup {[t |-> "NoneType", v |-> <<>>]}

\* The folders the name query returns, first match first.
FolderLists == {[i \in 1..n |-> n + 1 - i] : n \in 0..MaxFolders}

\* Most backend requests a constructor sends: the probe, the creation, and
\* two for each address.
MaxRequests == 2 + 2 * MaxShare

\* A thread that consumes `for name in driver.list_files(prefix)`: not
\* started ("idle"), about to test hasattr(self, "_url_cache") ("hasattr"),
\* about to assign the empty cache ("assign"), about to request a page
\* ("fetch"), going through a page ("page"), done or failed.
ThreadIds == {1, 2}
IdleThread ==
    [pc |-> "idle", prefix |-> None, buf |-> <<>>, token |-> 0, yielded |-> <<>>]

\* The exceptions a call on this configuration's backend can meet.
Failures(cfg) ==
    IF cfg.driver.t = "str" /\ cfg.driver.v \in DriverValues
    THEN BackendExceptions(cfg.driver.v) \cup {NoExc}
    ELSE {NoExc}

\* Keys found in a bucket before this process runs: whatever other writers
\* put there, directory markers and keys outside the subpath included.
PreKeys(cfg) ==
    IF cfg.driver = Str("minio")
    THEN {s \in Strings(MaxPathLen - 1) : s # <<>> /\ Head(s) # "/"}
    ELSE {}

\* Which backend request of a call fails: only the Drive driver issues more
\* than one request in a call.
FailAt(cfg, exc) ==
    IF cfg.driver = Str("google_drive") /\ exc # NoExc THEN 1..2 ELSE {1}

\* A list_files generator: not yet called ("none"), created and not started,
\* suspended at a yield ("running"), exhausted ("done") or ended by an
\* exception ("failed"); with the names it has yielded and the backend
\* requests it has issued.
IdleGen ==
    [pc |-> "none", prefix |-> None, buf |-> <<>>, token |-> 0,
     yielded |-> <<>>, requests |-> 0]

\* The prefixes a caller lists with.
Prefixes ==
    {None} \cup
    {s \in Strings(MaxPrefixLen) : \E p \in ObjectPaths : startswith(p, s)}

\* The page sizes the Drive backend may choose, by position in the folder.
PageSizes(cfg) ==
    IF cfg.driver = Str("google_drive") THEN [0..(MaxFiles - 1) -> 1..MaxPage]
    ELSE {[t \in 0..(MaxFiles - 1) |-> 1]}

Init ==
    /\ config \in {c \in [driver : ConfigDrivers, bucket_subpath : SubpathConfigs,
                          share_with : {NoShare}] :
                      c.driver # Str("minio") => c.bucket_subpath = None}
    /\ pc = "start"
    /\ driver = NoDriver
    /\ dest_exists \in BOOLEAN
    /\ store \in {<<>>} \cup
                 (IF dest_exists THEN {<<k>> : k \in PreKeys(config)} ELSE {})
    /\ dirs = IF config.driver = Str("local")
              THEN UNION {Parents(k) : k \in Range(store)}
              ELSE {}
    /\ url_cache = NoCache
    /\ gens = [g \in GenIds |-> IdleGen]
    /\ lastOp = Outcome("none", <<>>, <<>>, FALSE, NoErr, 0)
    /\ uploaded = {}
    /\ yieldedNames = {}
    /\ folders = IF config.driver = Str("google_drive") /\ dest_exists
                 THEN <<1>> ELSE <<>>
    /\ permissions = {}
    /\ locators = {}
    /\ threads = [t \in ThreadIds |-> IdleThread]

\* driver = create_driver(config)
CreateDriver ==
    /\ pc = "start"
    /\ \E exc \in Failures(config), at \in 1..MaxRequests :
          LET r == create_driver(config, dest_exists, folders, permissions,
                                 exc, at)
          IN  /\ driver' = r.driver
              /\ dest_exists' = r.dest_exists
              /\ folders' = r.folders
              /\ permissions' = r.permissions
              /\ lastOp' = r.out
              /\ pc' = IF r.out.err # NoErr THEN "init_failed"
                       ELSE IF r.driver = NoDriver THEN "no_driver"
                       ELSE "ready"
    /\ UNCHANGED <<config, store, dirs, url_cache, gens, uploaded, yieldedNames,
                   locators, threads>>

\* The Object Paths the caller uses; Drive names include one to escape.
Paths(cfg) ==
    IF cfg.driver = Str("google_drive") THEN ObjectPaths \cup SpecialPaths
    ELSE ObjectPaths

\* A listing is being consumed. The destination is not written meanwhile:
\* what a backend's iterator does when the destination changes under it is
\* not the driver's to decide.
Listing ==
    \/ \E g \in GenIds : gens[g].pc \in {"created", "running"}
    \/ \E t \in ThreadIds : threads[t].pc # "idle"

\* driver.upload_file(src, obj_path)
upload_file(d, st, ds, obj_path, exc, at) ==
    CASE d.kind = "local" -> LocalDriver_upload_file(st, ds, obj_path, exc)
      [] d.kind = "minio" ->
            MinioDriver_upload_file(d.bucket_subpath, st, obj_path, exc)
               @@ [dirs |-> ds]
      [] d.kind = "google_drive" ->
            GoogleDriveDriver_upload_file(st, obj_path, exc, at) @@ [dirs |-> ds]
      [] d.kind = "azure" ->
            AzureDriver_upload_file(st, obj_path, exc) @@ [dirs |-> ds]

UploadFile ==
    /\ pc = "ready"
    /\ ~Listing
    /\ \E obj_path \in Paths(config), exc \in Failures(config) :
       \E at \in FailAt(config, exc) :
          LET r == upload_file(driver, store, dirs, obj_path, exc, at)
          IN  /\ Len(r.store) <= MaxFiles
              /\ store' = r.store
              /\ dirs' = r.dirs
              /\ lastOp' = r.out
              /\ uploaded' = IF r.out.err = NoErr
                             THEN uploaded \cup {obj_path}
                             ELSE uploaded
              /\ locators' = IF r.out.err = NoErr /\ driver.kind # "google_drive"
                             THEN locators \cup {[path |-> obj_path,
                                                  url |-> r.out.ret]}
                             ELSE locators
    /\ UNCHANGED <<folders, permissions, threads>>
    /\ UNCHANGED <<config, pc, driver, dest_exists, url_cache, gens,
                   yieldedNames>>

\* driver.get_file_url(obj_path)
get_file_url(d, cache, st, obj_path, exc) ==
    CASE d.kind = "local" -> LocalDriver_get_file_url(obj_path)
      [] d.kind = "minio" -> MinioDriver_get_file_url(d.bucket_subpath, obj_path)
      [] d.kind = "google_drive" ->
            GoogleDriveDriver_get_file_url(cache, st, obj_path, exc)
      [] d.kind = "azure" -> AzureDriver_get_file_url(obj_path)

GetFileUrl ==
    /\ pc = "ready"
    /\ \E obj_path \in Paths(config), exc \in Failures(config) :
          lastOp' = get_file_url(driver, url_cache, store, obj_path, exc)
    /\ UNCHANGED <<folders, permissions, locators, threads>>
    /\ UNCHANGED <<config, pc, driver, dest_exists, store, dirs, url_cache,
                   gens, uploaded, yieldedNames>>

\* driver.file_exists(obj_path)
file_exists(d, cache, st, ds, obj_path, exc) ==
    CASE d.kind = "local" -> LocalDriver_file_exists(st, ds, obj_path)
      [] d.kind = "minio" ->
            MinioDriver_file_exists(d.bucket_subpath, st, obj_path, exc)
      [] d.kind = "google_drive" ->
            GoogleDriveDriver_file_exists(cache, st, obj_path, exc)
      [] d.kind = "azure" -> AzureDriver_file_exists(st, obj_path, exc)

FileExists ==
    /\ pc = "ready"
    /\ \E obj_path \in Paths(config), exc \in Failures(config) :
          lastOp' = file_exists(driver, url_cache, store, dirs, obj_path, exc)
    /\ UNCHANGED <<folders, permissions, locators, threads>>
    /\ UNCHANGED <<config, pc, driver, dest_exists, store, dirs, url_cache,
                   gens, uploaded, yieldedNames>>

\* g = driver.list_files(prefix): a generator object; none of its body runs
\* before the first next(g).
ListFiles(g) ==
    /\ pc = "ready"
    /\ gens[g].pc = "none"
    /\ \E prefix \in Prefixes :
          /\ gens' = [gens EXCEPT ![g] = [IdleGen EXCEPT !.pc = "created",
                                                         !.prefix = prefix]]
          /\ lastOp' = Outcome("list_files", prefix, <<>>, FALSE, NoErr, 0)
    /\ UNCHANGED <<folders, permissions, locators, threads>>
    /\ UNCHANGED <<config, pc, driver, dest_exists, store, dirs, url_cache,
                   uploaded, yieldedNames>>

\* The backend iterator list_files loops over, obtained when the body starts.
backend_listing(d, st, prefix) ==
    CASE d.kind = "local" -> LocalDriver_walk(st)
      [] d.kind = "minio" ->
            list_objects(st, effective_prefix(d.bucket_subpath, prefix))
      [] d.kind = "azure" -> list_blobs(st, prefix)
      [] d.kind = "google_drive" -> <<>>

\* The body of list_files from where it is suspended to its next yield, its
\* end or its exception.
list_next(d, gen, st, sizes, exc, at) ==
    LET buf == IF gen.pc = "created" THEN backend_listing(d, st, gen.prefix)
               ELSE gen.buf
        \* list_objects / list_blobs send their request when iteration starts
        first(r) == [r EXCEPT !.calls = IF gen.pc = "created" THEN 1 ELSE @]
    IN  CASE d.kind = "local" -> LocalDriver_list_next(buf, gen.prefix)
          [] d.kind = "minio" ->
                first(MinioDriver_list_next(d.bucket_subpath, buf, exc))
          [] d.kind = "azure" -> first(AzureDriver_list_next(buf, exc))
          [] d.kind = "google_drive" ->
                GoogleDriveDriver_list_next(buf, gen.token, gen.pc = "created",
                                            gen.prefix, st, sizes, exc, at, 0)

\* Variant: every file of the page received is put in the cache.
cache_after_whole_page(d, cache, r) ==
    IF d.kind # "google_drive" THEN cache
    ELSE IF r.ev = "yield"
    THEN [has |-> TRUE,
          entries |-> cache_set(cache, r.name, r.url).entries
                      \cup {[name |-> r.buf[i].name, url |-> r.buf[i].url] :
                               i \in DOMAIN r.buf}]
    ELSE [cache EXCEPT !.has = TRUE]

\* self._url_cache after one resumption: created by the first, and given the
\* yielded file's name and link.
cache_after(d, cache, r) ==
    IF d.kind # "google_drive" THEN cache
    ELSE IF r.ev = "yield" THEN cache_set(cache, r.name, r.url)
    ELSE [cache EXCEPT !.has = TRUE]

\* next(g)
ListNext(g) ==
    /\ pc = "ready"
    /\ gens[g].pc \in {"created", "running"}
    /\ \E sizes \in PageSizes(config), exc \in Failures(config) :
       \E at \in FailAt(config, exc) :
          LET r == list_next(driver, gens[g], store, sizes, exc, at)
          IN  /\ gens' = [gens EXCEPT ![g] =
                    [pc |-> CASE r.ev = "yield" -> "running"
                              [] r.ev = "stop" -> "done"
                              [] r.ev = "raise" -> "failed",
                     prefix |-> gens[g].prefix,
                     buf |-> r.buf,
                     token |-> r.token,
                     yielded |-> IF r.ev = "yield"
                                 THEN Append(gens[g].yielded, r.name)
                                 ELSE gens[g].yielded,
                     requests |-> gens[g].requests + r.calls]]
              /\ url_cache' = cache_after(driver, url_cache, r)
              /\ yieldedNames' = IF r.ev = "yield"
                                 THEN yieldedNames \cup {r.name}
                                 ELSE yieldedNames
              /\ lastOp' = Outcome("next", gens[g].prefix, r.name, FALSE,
                                   IF r.ev = "stop" THEN StopIteration
                                   ELSE r.err,
                                   r.calls)
    /\ UNCHANGED <<folders, permissions, locators, threads>>
    /\ UNCHANGED <<config, pc, driver, dest_exists, store, dirs, uploaded>>

Next ==
    \/ CreateDriver
    \/ UploadFile
    \/ GetFileUrl
    \/ FileExists
    \/ \E g \in GenIds : ListFiles(g)
    \/ \E g \in GenIds : ListNext(g)

Spec == Init /\ [][Next]_vars

\* ------------------------------------------------ construction in detail
\* Any configuration over any destination: for the Drive, a list of folders
\* that have the configured name and the permissions others hold on them.
InitCreate ==
    /\ config \in {c \in [driver : ConfigDrivers, bucket_subpath : SubpathConfigs,
                          share_with : ShareConfigs] :
                      /\ c.driver # Str("minio") => c.bucket_subpath = None
                      /\ c.driver # Str("google_drive") => c.share_with = NoShare}
    /\ pc = "start"
    /\ driver = NoDriver
    /\ folders \in IF config.driver = Str("google_drive") THEN FolderLists
                   ELSE {<<>>}
    /\ dest_exists \in IF config.driver = Str("google_drive")
                       THEN {folders # <<>>} ELSE BOOLEAN
    /\ permissions \in SUBSET {[fileId |-> f, emailAddress |-> h] :
                                   f \in Range(folders), h \in Holders}
    /\ store = <<>>
    /\ dirs = {}
    /\ url_cache = NoCache
    /\ gens = [g \in GenIds |-> IdleGen]
    /\ lastOp = Outcome("none", <<>>, <<>>, FALSE, NoErr, 0)
    /\ uploaded = {}
    /\ yieldedNames = {}
    /\ locators = {}
    /\ threads = [t \in ThreadIds |-> IdleThread]

NextCreate == CreateDriver

SpecCreate == InitCreate /\ [][NextCreate]_vars


\* ------------------------------------------- list_files in two threads
\* Each thread runs `for name in driver.list_files(prefix): ...` on the one
\* Drive driver; the interpreter may switch threads between any two of the
\* steps below.

\* The thread calls list_files(prefix) and starts to iterate.
ThreadCall(t) ==
    /\ pc = "ready"
    /\ driver.kind = "google_drive"
    /\ threads[t].pc = "idle"
    /\ \A g \in GenIds : gens[g].pc = "none"
    /\ \E prefix \in Prefixes :
          /\ threads' = [threads EXCEPT ![t] = [IdleThread EXCEPT
                                                  !.pc = "hasattr",
                                                  !.prefix = prefix]]
          /\ lastOp' = Outcome("list_files", prefix, <<>>, FALSE, NoErr, 0)
    /\ UNCHANGED <<config, pc, driver, dest_exists, store, dirs, url_cache,
                   gens, uploaded, yieldedNames, folders, permissions,
                   locators>>

\* if not hasattr(self, "_url_cache"):
ThreadHasattr(t) ==
    /\ threads[t].pc = "hasattr"
    /\ threads' = [threads EXCEPT ![t].pc =
                      IF url_cache.has THEN "fetch" ELSE "assign"]
    /\ UNCHANGED <<config, pc, driver, dest_exists, store, dirs, url_cache,
                   gens, lastOp, uploaded, yieldedNames, folders, permissions,
                   locators>>

\* self._url_cache = {}
ThreadAssign(t) ==
    /\ threads[t].pc = "assign"
    /\ url_cache' = [has |-> TRUE, entries |-> {}]
    /\ threads' = [threads EXCEPT ![t].pc = "fetch"]
    /\ UNCHANGED <<config, pc, driver, dest_exists, store, dirs, gens, lastOp,
                   uploaded, yieldedNames, folders, permissions, locators>>

\* results = files().list(..., pageToken=page_token).execute()
ThreadFetch(t) ==
    /\ threads[t].pc = "fetch"
    /\ \E size \in 1..MaxPage, exc \in Failures(config) :
          IF exc # NoExc
          THEN threads' = [threads EXCEPT ![t].pc = "failed", ![t].buf = <<>>]
          ELSE LET results == files_list(store, threads[t].token, size)
               IN  threads' = [threads EXCEPT
                                ![t].pc = "page",
                                ![t].buf = results.files,
                                ![t].token = next_page_token(results)]
    /\ UNCHANGED <<config, pc, driver, dest_exists, store, dirs, url_cache,
                   gens, lastOp, uploaded, yieldedNames, folders, permissions,
                   locators>>

\* The loop over the page up to the next file the prefix selects:
\* self._url_cache[name] = link; yield name. With none left, the next page,
\* or the end after the last one.
ThreadPage(t) ==
    /\ threads[t].pc = "page"
    /\ LET buf == threads[t].buf
           hits == {i \in 1..Len(buf) :
                       prefix_matches(buf[i].name, threads[t].prefix)}
       IN  IF hits # {}
           THEN /\ url_cache' = cache_set(url_cache, buf[Min(hits)].name,
                                          buf[Min(hits)].url)
                /\ threads' = [threads EXCEPT
                      ![t].buf = DropFirst(buf, Min(hits)),
                      ![t].yielded = Append(@, buf[Min(hits)].name)]
                /\ yieldedNames' = yieldedNames \cup {buf[Min(hits)].name}
           ELSE /\ threads' = [threads EXCEPT
                      ![t].buf = <<>>,
                      ![t].pc = IF threads[t].token = 0 THEN "done"
                                ELSE "fetch"]
                /\ UNCHANGED <<url_cache, yieldedNames>>
    /\ UNCHANGED <<config, pc, driver, dest_exists, store, dirs, gens, lastOp,
                   uploaded, folders, permissions, locators>>

\* A process that builds a Drive driver, uploads, then lists in two threads.
InitThreads == Init /\ config.driver = Str("google_drive")

NextThreads ==
    \/ CreateDriver
    \/ UploadFile
    \/ \E t \in ThreadIds : ThreadCall(t)
    \/ \E t \in ThreadIds : ThreadHasattr(t)
    \/ \E t \in ThreadIds : ThreadAssign(t)
    \/ \E t \in ThreadIds : ThreadFetch(t)
    \/ \E t \in ThreadIds : ThreadPage(t)

SpecThreads == InitThreads /\ [][NextThreads]_vars


\* ================================================================ claims
\* An Object Path's address in the destination.
backend_key(d, obj_path) ==
    IF d.kind = "minio" THEN scoped_key(d.bucket_subpath, obj_path) ELSE obj_path

\* Nothing is stored under the Object Path.
Absent(obj_path) == backend_key(driver, obj_path) \notin Range(store)

\* The backend reported nothing but, at most, "not found".
NoBackendError == lastOp.err.cause \in {NoExc, S3NoSuchKey}

\* The files in the driver's scope, as scope-relative names in backend
\* order: under a bucket subpath S the keys that start with "S/", without
\* the directory markers.
InScope(d, st) ==
    IF d.kind = "minio"
    THEN LET S == IF Truthy(d.bucket_subpath) THEN d.bucket_subpath \o <<"/">>
                  ELSE <<>>
             keys == SelectSeq(st, LAMBDA k : startswith(k, S) /\ ~is_dir(k))
         IN  [i \in 1..Len(keys) |-> DropFirst(keys[i], Len(S))]
    ELSE st

\* What a complete listing with this prefix has to yield.
Expected(d, st, prefix) ==
    SelectSeq(InScope(d, st), LAMBDA n : prefix = None \/ startswith(n, prefix))

\* The latest call was the next() that exhausted generator g.
JustExhausted(g) ==
    /\ gens[g].pc = "done"
    /\ lastOp.op = "next"
    /\ lastOp.err = StopIteration

\* C1: on every driver, once upload_file(src, p) has returned, and whatever
\* list_files / get_file_url / file_exists calls followed, a file_exists(p)
\* that returns gives True and a get_file_url(p) that returns gives a
\* non-empty locator.
C1_UploadedIsFound ==
    lastOp.arg \in uploaded /\ lastOp.err = NoErr =>
        /\ lastOp.op = "file_exists" => lastOp.found
        /\ lastOp.op = "get_file_url" => lastOp.ret \notin {<<>>, None}

\* C1 case: a MinIO driver with a subpath finds an uploaded path after a
\* listing was consumed.
C1_Witness ==
    /\ driver.kind = "minio" /\ Truthy(driver.bucket_subpath)
    /\ gens[1].pc = "done"
    /\ lastOp.op = "file_exists" /\ lastOp.arg \in uploaded /\ lastOp.found

\* C2 as stated: for a path with nothing stored under it, get_file_url gives
\* an empty result and file_exists gives False, and neither raises unless
\* the backend reported an error other than "not found".
C2_AbsentIsEmptyAndFalse ==
    /\ pc = "ready"
    /\ lastOp.op \in {"get_file_url", "file_exists"}
    /\ Absent(lastOp.arg)
    /\ NoBackendError
    => /\ lastOp.err = NoErr
       /\ lastOp.op = "get_file_url" => lastOp.ret = <<>>
       /\ lastOp.op = "file_exists" => ~lastOp.found

\* C2 amended: for a path with nothing stored under it (on the Local driver
\* no directory either), file_exists gives False; get_file_url gives an
\* empty result on the Google Drive driver and, on the Local, MinIO and
\* Azure drivers, the locator computed from the path, existence unchecked;
\* neither raises unless the backend reported an error other than "not
\* found".
C2_AbsentIsFalseUrlUnchecked ==
    /\ pc = "ready"
    /\ lastOp.op \in {"get_file_url", "file_exists"}
    /\ Absent(lastOp.arg)
    /\ NoBackendError
    => /\ lastOp.err = NoErr
       /\ lastOp.op = "file_exists" /\ lastOp.arg \notin dirs => ~lastOp.found
       /\ lastOp.op = "get_file_url" =>
            lastOp.ret =
                CASE driver.kind = "google_drive" -> <<>>
                  [] driver.kind = "local" -> dest \o <<"/">> \o lastOp.arg
                  [] driver.kind = "minio" ->
                        base_url \o <<"/">> \o backend_key(driver, lastOp.arg)
                  [] driver.kind = "azure" ->
                        container_url \o <<"/">> \o lastOp.arg

\* C2 case: the Google Drive driver, a listing consumed, is asked for a name
\* the folder does not hold, queries the backend and answers False.
C2_Witness ==
    /\ driver.kind = "google_drive"
    /\ url_cache.entries # {}
    /\ lastOp.op = "file_exists" /\ Absent(lastOp.arg)
    /\ lastOp.err = NoErr /\ ~lastOp.found /\ lastOp.calls = 1

\* C3: a listing that ran to its end has yielded exactly the scope-relative
\* names of the files in the driver's scope that start with the prefix (all
\* of them without a prefix): nothing else, nothing with the scope on it.
C3_ListYieldsScopeRelative ==
    \A g \in GenIds :
        JustExhausted(g) =>
            Range(gens[g].yielded) = Range(Expected(driver, store, gens[g].prefix))

\* C3 case: a MinIO driver with subpath "a" holding "a/a" and "aa" lists with
\* prefix "a/" and yields "a/a" alone.
C3_Witness ==
    /\ driver.kind = "minio" /\ driver.bucket_subpath = <<"a">>
    /\ uploaded = {<<"a", "/", "a">>, <<"a", "a">>}
    /\ JustExhausted(1)
    /\ gens[1].prefix = <<"a", "/">>
    /\ gens[1].yielded = <<(<<"a", "/", "a">>)>>

\* C4: a MinIO driver with a subpath S never yields a name that does not
\* come from a key under "S/": each yielded name, with "S/" put back, is a
\* key of the bucket.
C4_ScopeIsDirectoryBounded ==
    driver.kind = "minio" /\ Truthy(driver.bucket_subpath) =>
        \A g \in GenIds : \A i \in 1..Len(gens[g].yielded) :
            driver.bucket_subpath \o <<"/">> \o gens[g].yielded[i] \in Range(store)

\* C4 case: subpath "a", the bucket holds the sibling key "aa" and a key
\* under "a/"; the listing ran to its end and yielded that one alone.
C4_Witness ==
    /\ driver.kind = "minio" /\ driver.bucket_subpath = <<"a">>
    /\ <<"a", "a">> \in Range(store)
    /\ gens[1].pc = "done" /\ gens[1].prefix = None
    /\ Len(gens[1].yielded) = 1

\* C5: a listing that ran to its end has yielded the names of the files the
\* backend holds (those the prefix selects), each as often as the backend
\* holds it and in the backend's order, however the backend paged them.
C5_ListYieldsEachOnce ==
    \A g \in GenIds :
        JustExhausted(g) =>
            gens[g].yielded = Expected(driver, store, gens[g].prefix)

\* C5 case: the Drive folder holds two files, served as two pages.
C5_Witness ==
    /\ driver.kind = "google_drive"
    /\ JustExhausted(1)
    /\ gens[1].prefix = None
    /\ gens[1].requests = 2
    /\ Len(store) = 2 /\ gens[1].yielded = store

\* C6: Google Drive driver: get_file_url(n) and file_exists(n) for a name n
\* that list_files has yielded issue no backend request and are answered
\* from the cache; for a name not in the cache each issues one request.
C6_YieldedIsAnsweredFromCache ==
    driver.kind = "google_drive"
        /\ lastOp.op \in {"get_file_url", "file_exists"} =>
        /\ lastOp.arg \in yieldedNames =>
              /\ lastOp.calls = 0
              /\ lastOp.err = NoErr
              /\ cache_has(url_cache, lastOp.arg)
              /\ lastOp.op = "file_exists" => lastOp.found
              /\ lastOp.op = "get_file_url" =>
                    lastOp.ret = cache_get(url_cache, lastOp.arg)
        /\ ~cache_has(url_cache, lastOp.arg) => lastOp.calls = 1

\* C6 case: get_file_url of a yielded name, no request issued.
C6_Witness ==
    /\ driver.kind = "google_drive"
    /\ lastOp.op = "get_file_url"
    /\ lastOp.arg \in yieldedNames
    /\ lastOp.calls = 0 /\ lastOp.ret # <<>>


\* The messages that open with each backend family's name.
FamilyMessages(kind) ==
    CASE kind = "local" ->
            {"Local driver init error: ", "Local driver error: ",
             "Local driver list error: "}
      [] kind = "minio" ->
            {"MinIO driver init error: ", "MinIO driver error: ",
             "MinIO driver list error: ", "MinIO driver exists error: "}
      [] kind = "google_drive" ->
            {"GoogleDrive driver init error: ", "GoogleDrive driver error: ",
             "Google Drive file link error: ", "Google Drive list error: ",
             "Google Drive get file URL error: ",
             "Google Drive file exists error: "}
      [] kind = "azure" ->
            {"Azure driver init error: ", "Azure driver error: ",
             "Azure driver list error: ", "Azure driver exists error: "}
      [] OTHER -> {}

\* C7 as stated: whenever the backend client raised in a construction, an
\* upload_file, a list_files step, a get_file_url or a file_exists, the
\* caller gets a DriverError whose message opens with the backend family's
\* name and carries the cause; no other exception type reaches the caller.
C7_BackendErrorsAreWrapped ==
    lastOp.err.cause \notin {NoExc, S3NoSuchKey} =>
        /\ lastOp.err.raised = "DriverError"
        /\ lastOp.err.msg # <<>>
        /\ lastOp.err.msg[1] \in FamilyMessages(config.driver.v)

\* C8 as stated: MinIO file_exists ends in one of three ways: True when the
\* key is there, False when the backend answers NoSuchKey, DriverError for
\* every other backend error.
C8_ExistsHasThreeOutcomes ==
    driver.kind = "minio" /\ lastOp.op = "file_exists" =>
        \/ lastOp.err = NoErr /\ lastOp.found /\ ~Absent(lastOp.arg)
        \/ lastOp.err = NoErr /\ ~lastOp.found /\ Absent(lastOp.arg)
        \/ /\ lastOp.err.raised = "DriverError"
           /\ lastOp.err.cause \notin {NoExc, S3NoSuchKey}

\* C9 as stated: a create_driver that returns has built the driver of the
\* configured kind, and no driver (None) for a kind that is none of the four.
C9_FactorySelectsByKind ==
    pc \in {"ready", "no_driver"} =>
        IF config.driver.v \in DriverValues
        THEN driver.kind = config.driver.v
        ELSE driver = NoDriver

\* C10 as stated: comparing the configured kind with a DriverType member is
\* true exactly when they are the same kind, whether the configured kind is
\* the member itself or its string.
C10_KindEqualsItselfAndItsString ==
    pc # "start" =>
        \A k \in DriverValues :
            IsTrue(PyEq(config.driver, Member(k))) <=> config.driver.v = k

\* The addresses config.google_drive.share_with names, in order.
Configured ==
    IF config.share_with.t \in {"str", "list"} THEN config.share_with.v
    ELSE <<>>

\* The requests the latest call, a create_driver, sent to the backend.
Requests == lastOp.requests

\* The permissions().create requests of the construction, and those for an
\* address whatever its case.
Grants == {i \in DOMAIN Requests : Requests[i].api = "permissions.create"}
GrantsFor(e) == {i \in Grants : lower(Requests[i].emailAddress) = lower(e)}

\* The folder the constructor settled on: the first the name query returned,
\* or the one it created.
Resolved == Head(folders)

\* The permissions before the construction: all but those it granted.
Before ==
    permissions \ {[fileId |-> Requests[i].fileId,
                    emailAddress |-> Requests[i].emailAddress] :
                       i \in {j \in Grants : Requests[j].result = "ok"}}
HeldBefore(e) ==
    \E p \in Before : p.fileId = Resolved /\ lower(p.emailAddress) = lower(e)

\* C11: a Google Drive construction that returns has sent, for each address
\* (whatever its case), one permissions().create when a configured spelling
\* of it matches email_regex and nobody held a permission under it on the
\* resolved folder, and none otherwise; addresses that fail the syntax check
\* raise nothing; every grant, in a construction that fails as well, comes
\* after the folder requests, names the resolved folder and carries a
\* configured address that matches.
C11_OneGrantPerNewCollaborator ==
    config.driver = Str("google_drive") /\ lastOp.op = "create_driver" =>
        /\ pc = "ready" =>
              \A e \in Addresses :
                  Cardinality(GrantsFor(e)) =
                      IF /\ \E k \in DOMAIN Configured :
                               /\ lower(Configured[k]) = lower(e)
                               /\ email_regex_match(Configured[k])
                         /\ ~HeldBefore(e)
                      THEN 1 ELSE 0
        /\ \A i \in Grants :
              /\ Requests[i].emailAddress \in Range(Configured)
              /\ email_regex_match(Requests[i].emailAddress)
              /\ Requests[i].fileId = Resolved
              /\ \A j \in DOMAIN Requests :
                    Requests[j].api \in {"files.list", "files.create"} => j < i
              /\ \A j \in Grants :
                    lower(Requests[j].emailAddress) = lower(Requests[i].emailAddress)
                        => j = i
        /\ lastOp.err.cause = NoExc /\ config.share_with.t \in {"str", "list"}
              => pc = "ready"

\* C11 case: two addresses configured, the first already holding a
\* permission under another spelling: one grant, for the second.
C11_Witness ==
    /\ pc = "ready" /\ lastOp.op = "create_driver"
    /\ config.share_with =
          [t |-> "list",
           v |-> <<(<<"a", "@", "a", ".", "a">>), (<<"b", "@", "a", ".", "a">>)>>]
    /\ folders = <<2, 1>>
    /\ [fileId |-> 2, emailAddress |-> <<"A", "@", "a", ".", "a">>] \in Before
    /\ Cardinality(Grants) = 1
    /\ Len(Requests) = 4
    /\ Requests[4] = Request("permissions.create", 2,
                             <<"b", "@", "a", ".", "a">>, "ok")

\* The probe and the creating request of each driver's constructor.
ProbeApi(kind) ==
    CASE kind = "local" -> "os.path.exists"
      [] kind = "minio" -> "bucket_exists"
      [] kind = "google_drive" -> "files.list"
      [] kind = "azure" -> "exists"
CreateApi(kind) ==
    CASE kind = "local" -> "os.makedirs"
      [] kind = "minio" -> "make_bucket"
      [] kind = "google_drive" -> "files.create"
      [] kind = "azure" -> "create_container"

\* C12: the constructor of each driver sends its existence probe once, as
\* its first request, and its creating request once, right after, exactly
\* when the probe answered that the destination is absent; a driver that was
\* built has its destination; the Drive driver works on the first folder the
\* probe returned.
C12_CreatesIffProbeSaysAbsent ==
    /\ lastOp.op = "create_driver"
    /\ config.driver.t = "str" /\ config.driver.v \in DriverValues
    =>
        LET kind == config.driver.v
        IN  /\ Requests # <<>>
            /\ {i \in DOMAIN Requests : Requests[i].api = ProbeApi(kind)} = {1}
            /\ {i \in DOMAIN Requests : Requests[i].api = CreateApi(kind)} =
                  IF Requests[1].result = "absent" THEN {2} ELSE {}
            /\ pc = "ready" => dest_exists
            /\ kind = "google_drive" /\ Requests[1].result = "found" =>
                  \A i \in 2..Len(Requests) : Requests[i].fileId = Head(folders)

\* C12 case: the Azure container is absent and gets created.
C12_Witness ==
    /\ config.driver = Str("azure")
    /\ pc = "ready" /\ lastOp.op = "create_driver"
    /\ Requests = <<Probe("exists", FALSE, FALSE), Create("create_container", FALSE)>>

\* C13: file_exists sends at most one request to the backend however many
\* objects the destination holds, and the Google Drive driver none for a
\* name its cache has.
C13_ExistsIsOnePointQuery ==
    lastOp.op = "file_exists" =>
        /\ lastOp.calls <= 1
        /\ driver.kind = "google_drive" /\ cache_has(url_cache, lastOp.arg)
              => lastOp.calls = 0

\* C13 case: the Drive folder holds MaxFiles files and none is in the cache;
\* file_exists finds the last one with one request.
C13_Witness ==
    /\ driver.kind = "google_drive"
    /\ Len(store) = MaxFiles
    /\ url_cache.entries = {}
    /\ lastOp.op = "file_exists" /\ lastOp.arg = store[MaxFiles]
    /\ lastOp.arg # store[1]
    /\ lastOp.found /\ lastOp.calls = 1

\* C14: every key of the Drive URL cache is a name list_files has yielded;
\* and a get_file_url or file_exists that reports a name missing from the
\* cache as absent has asked the backend, which does not hold it.
C14_CacheHoldsYieldedNamesOnly ==
    driver.kind = "google_drive" =>
        /\ \A e \in url_cache.entries : e.name \in yieldedNames
        /\ /\ lastOp.op \in {"get_file_url", "file_exists"}
           /\ ~cache_has(url_cache, lastOp.arg)
           /\ lastOp.err = NoErr
           /\ (IF lastOp.op = "file_exists" THEN ~lastOp.found
               ELSE lastOp.ret = <<>>)
           => lastOp.calls = 1 /\ Absent(lastOp.arg)

\* C14 case: a listing with a prefix ran to its end over two files and
\* yielded one; the cache has that one alone, and file_exists finds the
\* other with a request.
C14_Witness ==
    /\ driver.kind = "google_drive"
    /\ gens[1].pc = "done" /\ gens[1].prefix # None
    /\ Len(store) = 2 /\ Len(gens[1].yielded) = 1
    /\ Cardinality(url_cache.entries) = 1
    /\ lastOp.op = "file_exists"
    /\ ~cache_has(url_cache, lastOp.arg)
    /\ lastOp.found /\ lastOp.calls = 1

\* C15: on the Local, MinIO and Azure drivers a get_file_url(p) returns the
\* locator every successful upload_file(src, p) on the instance returned.
C15_UrlIsTheUploadLocator ==
    /\ driver.kind \in {"local", "minio", "azure"}
    /\ lastOp.op = "get_file_url"
    => /\ lastOp.err = NoErr
       /\ \A l \in locators : l.path = lastOp.arg => l.url = lastOp.ret

\* C15 case: a MinIO driver with a subpath is asked for the locator of a
\* path it uploaded.
C15_Witness ==
    /\ driver.kind = "minio" /\ driver.bucket_subpath = <<"a">>
    /\ lastOp.op = "get_file_url"
    /\ lastOp.arg = <<"a", "a">>
    /\ [path |-> <<"a", "a">>, url |-> <<"M", "/", "a", "/", "a", "a">>] \in locators
    /\ lastOp.ret = <<"M", "/", "a", "/", "a", "a">>

\* C16 as stated: once two threads have each consumed a list_files call on
\* the one Drive driver, every name either of them was given is a key of
\* the URL cache.
C16_NoEntryLostToInit ==
    (\A t \in ThreadIds : threads[t].pc = "done") =>
        \A t \in ThreadIds : \A i \in 1..Len(threads[t].yielded) :
            cache_has(url_cache, threads[t].yielded[i])

====
